---- MODULE Spec2Model ----
(***************************************************************************)
(* Model of the supervisor's Home Assistant control object                 *)
(* (supervisor/homeassistant/module.py: backup, restore, _hardware_events) *)
(* and of the NetworkManager payload generators                            *)
(* (supervisor/dbus/payloads/generate.py).                                 *)
(*                                                                         *)
(* The four components share no state, so each has its own specification   *)
(* over the common variable tuple: SpecBackup, SpecRestore, SpecHardware   *)
(* and SpecPayload.  Text is modelled as a sequence of one-character       *)
(* strings (names) or of code points / bytes (SSIDs).                      *)
(***************************************************************************)
EXTENDS Integers, Sequences, FiniteSets, TLC

VARIABLES
    \* ---- HomeAssistant.backup
    bpc,          \* position of the backup coroutine
    btrace,       \* what the call has attempted so far, in order
    bstartOut,    \* what the channel answered to BACKUP_START
    bpopOut,      \* how _write_tarfile ended in the executor
    bendOut,      \* what the channel answered to BACKUP_END
    bresult,      \* what the caller of backup() observes
    bwarnings,    \* number of _LOGGER.warning records written by backup()
    bcalls,       \* number of backup() calls started
    \* ---- HomeAssistant.restore
    rpc,          \* position of the restore coroutine
    archive,      \* the members of the tar file, in archive order
    failAt,       \* index of the member whose extraction raises (0: none)
    failKind,     \* the exception raised there
    extractFilter,\* tarfile's default extraction filter of the interpreter
    fs,           \* the files of the filesystem (absolute, normalised paths)
    fsBefore,     \* fs when extraction began
    nextMember,   \* index of the next member extractall() handles
    rerror,       \* the exception extraction raised, None if none
    rresult,      \* what the caller of restore() observes
    rlog,         \* number of _LOGGER.warning records written by restore()
    \* ---- HomeAssistant._hardware_events
    hpc,          \* position of the event handler
    version,      \* installed version (self.version), NoVersion if unknown
    hversion,     \* self.version as the handler read it for this event
    hmatch,       \* is_match_cgroup(PolicyGroup.UART, device) for this event
    hreply,       \* what the channel answered to get_config
    hqueries,     \* get_config queries issued for this event
    hscans,       \* usb/scan messages sent for this event
    hresult,      \* how the handler ended
    hevents,      \* number of events handled
    \* ---- dbus/payloads/generate.py
    iface,        \* the caller's Interface object
    ssid0,        \* iface.wifi.ssid at construction
    conn,         \* result of the last get_connection_from_interface call
    argName,      \* the name argument of that call
    adopted,      \* that name was the id the previous call produced
    builds,       \* number of get_connection_from_interface calls
    rendered,     \* results of the interface_update_payload calls, in order
    renderArgs    \* the <<name, uuid>> arguments of those calls, in order

backupVars   == <<bpc, btrace, bstartOut, bpopOut, bendOut, bresult, bwarnings, bcalls>>
restoreVars  == <<rpc, archive, failAt, failKind, extractFilter, fs, fsBefore,
                  nextMember, rerror, rresult, rlog>>
hardwareVars == <<hpc, version, hversion, hmatch, hreply, hqueries, hscans, hresult, hevents>>
payloadVars  == <<iface, ssid0, conn, argName, adopted, builds, rendered, renderArgs>>
vars == <<backupVars, restoreVars, hardwareVars, payloadVars>>

\* ---- bounds of the model
MaxCalls   == 2   \* backup() calls in one behaviour
MaxMembers == 2   \* members of the archive handed to restore()
MaxEvents  == 3   \* hardware events in one behaviour
MaxAddr    == 2   \* addresses of a manual IPv6 block
MaxBuilds  == 3   \* get_connection_from_interface calls in one behaviour
MaxRenders == 2   \* interface_update_payload calls in one behaviour

(***************************************************************************)
(* Generic helpers                                                         *)
(***************************************************************************)
None == "None"

StartsWith(s, p) == Len(s) >= Len(p) /\ SubSeq(s, 1, Len(p)) = p

RECURSIVE Concat(_)
Concat(ss) == IF ss = <<>> THEN <<>> ELSE Head(ss) \o Concat(Tail(ss))

SeqsUpTo(S, n) == UNION {[1..k -> S] : k \in 0..n}

(***************************************************************************)
(* The command channel (self.websocket).  async_send_command answers or    *)
(* raises HomeAssistantWSError; the two failure kinds of the channel are   *)
(* both HomeAssistantWSError.                                              *)
(***************************************************************************)
HomeAssistantWSError == {"ChannelTimeout", "ChannelUnavailable"}
ChannelOutcomes == {"ok"} \cup HomeAssistantWSError

(***************************************************************************)
(* HomeAssistant.backup                                                    *)
(***************************************************************************)
PopulateOutcomes == {"ok", "ArchiveWriteFailed", "OSError"}

Return == [kind |-> "return", value |-> None]
Raise(e) == [kind |-> "raise", value |-> e]
Pending == [kind |-> "pending", value |-> None]

\* Variant of CaughtAtStart with a narrower except clause: only a timeout is
\* caught.  Used to test that C2 depends on the except clause.
CatchesTimeoutOnly(outcome) == outcome = "ChannelTimeout"

\* `except HomeAssistantWSError` around BACKUP_START: TRUE when the outcome
\* is an exception the handler catches.
CaughtAtStart(outcome) == outcome \in HomeAssistantWSError

\* `except HomeAssistantWSError` around BACKUP_END, inside the finally block.
CaughtAtEnd(outcome) == outcome \in HomeAssistantWSError

\* Variant of EntersFinally with BACKUP_END sent after the try block instead
\* of in a finally block.  Used to test that C1 depends on the finally.
EntersFinallyOnSuccessOnly(popOutcome) == popOutcome = "ok"

\* try/finally around the executor call: the finally block runs however
\* _write_tarfile ended.
EntersFinally(popOutcome) == TRUE

\* Variant of BackupOutcome without the except clause in the finally block:
\* a failure of BACKUP_END replaces the pending exception.  Used to test that
\* C3 depends on that except clause.
EndErrorMasks(popOutcome, endOutcome) ==
    IF endOutcome # "ok" THEN Raise(endOutcome)
    ELSE IF popOutcome # "ok" THEN Raise(popOutcome) ELSE Return

\* What backup() hands its caller once the finally block is over: an
\* exception escaping the finally block, else the exception pending from the
\* try block, else None.
BackupOutcome(popOutcome, endOutcome) ==
    IF endOutcome # "ok" /\ ~CaughtAtEnd(endOutcome) THEN Raise(endOutcome)
    ELSE IF popOutcome # "ok" THEN Raise(popOutcome) ELSE Return

BackupInit ==
    /\ bpc = "idle"
    /\ btrace = <<>>
    /\ bstartOut = None
    /\ bpopOut = None
    /\ bendOut = None
    /\ bresult = Pending
    /\ bwarnings = 0
    /\ bcalls = 0

\* backup() is called: the coroutine runs up to its first await, the
\* BACKUP_START request.
BackupCall ==
    /\ bpc \in {"idle", "done"}
    /\ bcalls < MaxCalls
    /\ bpc' = "await_start"
    /\ btrace' = <<"BACKUP_START">>
    /\ bstartOut' = None
    /\ bpopOut' = None
    /\ bendOut' = None
    /\ bresult' = Pending
    /\ bcalls' = bcalls + 1
    /\ UNCHANGED bwarnings
    /\ UNCHANGED <<restoreVars, hardwareVars, payloadVars>>

\* The BACKUP_START request ends; a caught failure is logged and
\* _write_tarfile is handed to the executor.
BackupStartReply ==
    /\ bpc = "await_start"
    /\ \E outcome \in ChannelOutcomes :
        /\ bstartOut' = outcome
        /\ IF outcome = "ok" \/ CaughtAtStart(outcome)
           THEN /\ bpc' = "await_executor"
                /\ btrace' = Append(btrace, "populate")
                /\ bwarnings' = IF outcome = "ok" THEN bwarnings ELSE bwarnings + 1
                /\ UNCHANGED bresult
           ELSE /\ bpc' = "done"
                /\ bresult' = Raise(outcome)
                /\ UNCHANGED <<btrace, bwarnings>>
    /\ UNCHANGED <<bpopOut, bendOut, bcalls>>
    /\ UNCHANGED <<restoreVars, hardwareVars, payloadVars>>

\* _write_tarfile ends in the executor; the coroutine resumes, and the
\* finally block sends the BACKUP_END request.
BackupWriteTarfile ==
    /\ bpc = "await_executor"
    /\ \E outcome \in PopulateOutcomes :
        /\ bpopOut' = outcome
        /\ IF EntersFinally(outcome)
           THEN /\ bpc' = "await_end"
                /\ btrace' = btrace \o <<"populate_end", "BACKUP_END">>
                /\ UNCHANGED bresult
           ELSE /\ bpc' = "done"
                /\ btrace' = Append(btrace, "populate_end")
                /\ bresult' = Raise(outcome)
    /\ UNCHANGED <<bstartOut, bendOut, bwarnings, bcalls>>
    /\ UNCHANGED <<restoreVars, hardwareVars, payloadVars>>

\* The BACKUP_END request ends; a caught failure is logged, and backup()
\* returns or re-raises what the try block raised.
BackupEndReply ==
    /\ bpc = "await_end"
    /\ \E outcome \in ChannelOutcomes :
        /\ bendOut' = outcome
        /\ bwarnings' = IF CaughtAtEnd(outcome) THEN bwarnings + 1 ELSE bwarnings
        /\ bresult' = BackupOutcome(bpopOut, outcome)
    /\ bpc' = "done"
    /\ UNCHANGED <<btrace, bstartOut, bpopOut, bcalls>>
    /\ UNCHANGED <<restoreVars, hardwareVars, payloadVars>>

(***************************************************************************)
(* HomeAssistant.restore                                                   *)
(*                                                                         *)
(* `with secure_tar_file as tar_file` yields the tarfile.TarFile, and      *)
(* extractall(path=origin_dir, members=tar_file) handles every member of   *)
(* the archive in archive order.  restore() names no extraction filter, so *)
(* the interpreter's default applies: "fully_trusted" before Python 3.14,  *)
(* "data" from 3.14 on.                                                    *)
(***************************************************************************)
OriginDir == <<"data", "homeassistant">>

MemberConfig    == [abs |-> FALSE, parts |-> <<"configuration.yaml">>]
MemberSecrets   == [abs |-> FALSE, parts |-> <<"secrets.yaml">>]
MemberTraversal == [abs |-> FALSE, parts |-> <<"..", "..", "etc", "passwd">>]
MemberAbsolute  == [abs |-> TRUE,  parts |-> <<"etc", "passwd">>]
MemberPool == {MemberConfig, MemberSecrets, MemberTraversal, MemberAbsolute}

ExtractFilters == {"fully_trusted", "data"}
\* tarfile.TarError and its subclasses, and OSError
TarErrors == {"ReadError", "OutsideDestinationError"}
RestoreCaught == TarErrors \cup {"OSError"}

\* The path the operating system resolves: ".." climbs, never above the root.
RECURSIVE Normalize(_, _)
Normalize(parts, acc) ==
    IF parts = <<>> THEN acc
    ELSE IF Head(parts) = ".."
         THEN Normalize(Tail(parts), IF acc = <<>> THEN <<>> ELSE SubSeq(acc, 1, Len(acc) - 1))
         ELSE Normalize(Tail(parts), Append(acc, Head(parts)))

\* os.path.join(path, name): an absolute name replaces the path.
JoinPath(dir, member) ==
    IF member.abs THEN Normalize(member.parts, <<>>)
    ELSE Normalize(dir \o member.parts, <<>>)

InsideOrigin(path) == StartsWith(path, OriginDir) /\ Len(path) > Len(OriginDir)

\* tarfile's "data" filter strips the leading slashes of a name, then
\* refuses a member that ends up outside the destination.
DataFiltered(member) == [abs |-> FALSE, parts |-> member.parts]
DataFilterRefuses(member) == ~InsideOrigin(JoinPath(OriginDir, DataFiltered(member)))

\* The path extractall() writes a member to, under the filter in force.
ExtractTarget(member, filter) ==
    IF filter = "data" THEN JoinPath(OriginDir, DataFiltered(member))
    ELSE JoinPath(OriginDir, member)

WriteFile(files, path, content) ==
    [q \in (DOMAIN files) \cup {path} |-> IF q = path THEN content ELSE files[q]]

InitialFiles ==
    [q \in {OriginDir \o <<"configuration.yaml">>, <<"etc", "passwd">>} |-> "old"]

\* `except (tarfile.TarError, OSError) as err: _LOGGER.warning(...)`: the
\* exception is logged and restore() falls off its end.
RestoreOutcome(err) == IF err \in RestoreCaught THEN Return ELSE Raise(err)

RestoreInit ==
    /\ rpc = "idle"
    /\ archive \in SeqsUpTo(MemberPool, MaxMembers)
    /\ failAt \in 0..(Len(archive) + 1)
    /\ failKind \in IF failAt = 0 THEN {None} ELSE {"ReadError", "OSError"}
    /\ extractFilter \in ExtractFilters
    /\ fs = InitialFiles
    /\ fsBefore = InitialFiles
    /\ nextMember = 1
    /\ rerror = None
    /\ rresult = Pending
    /\ rlog = 0

\* restore() is called and hands _restore_tarfile to the executor.
RestoreCall ==
    /\ rpc = "idle"
    /\ rpc' = "extracting"
    /\ fsBefore' = fs
    /\ nextMember' = 1
    /\ UNCHANGED <<archive, failAt, failKind, extractFilter, fs, rerror, rresult, rlog>>
    /\ UNCHANGED <<backupVars, hardwareVars, payloadVars>>

\* extractall() writes the next member.
ExtractMember ==
    /\ rpc = "extracting"
    /\ nextMember <= Len(archive)
    /\ nextMember # failAt
    /\ ~(extractFilter = "data" /\ DataFilterRefuses(archive[nextMember]))
    /\ fs' = WriteFile(fs, ExtractTarget(archive[nextMember], extractFilter), "new")
    /\ nextMember' = nextMember + 1
    /\ UNCHANGED <<rpc, archive, failAt, failKind, extractFilter, fsBefore, rerror, rresult, rlog>>
    /\ UNCHANGED <<backupVars, hardwareVars, payloadVars>>

\* The "data" filter refuses the next member: extractall() raises, and
\* restore() handles the exception.
ExtractRefused ==
    /\ rpc = "extracting"
    /\ nextMember <= Len(archive)
    /\ nextMember # failAt
    /\ extractFilter = "data" /\ DataFilterRefuses(archive[nextMember])
    /\ rerror' = "OutsideDestinationError"
    /\ rresult' = RestoreOutcome("OutsideDestinationError")
    /\ rlog' = IF "OutsideDestinationError" \in RestoreCaught THEN rlog + 1 ELSE rlog
    /\ rpc' = "done"
    /\ UNCHANGED <<archive, failAt, failKind, extractFilter, fs, fsBefore, nextMember>>
    /\ UNCHANGED <<backupVars, hardwareVars, payloadVars>>

\* Reading or writing the next member fails (a corrupted archive, a
\* filesystem error): extractall() raises, and restore() handles the exception.
ExtractFail ==
    /\ rpc = "extracting"
    /\ nextMember = failAt
    /\ rerror' = failKind
    /\ rresult' = RestoreOutcome(failKind)
    /\ rlog' = IF failKind \in RestoreCaught THEN rlog + 1 ELSE rlog
    /\ rpc' = "done"
    /\ UNCHANGED <<archive, failAt, failKind, extractFilter, fs, fsBefore, nextMember>>
    /\ UNCHANGED <<backupVars, hardwareVars, payloadVars>>

\* extractall() has handled every member; restore() returns.
ExtractDone ==
    /\ rpc = "extracting"
    /\ nextMember > Len(archive)
    /\ nextMember # failAt
    /\ rresult' = Return
    /\ rpc' = "done"
    /\ UNCHANGED <<archive, failAt, failKind, extractFilter, fs, fsBefore, nextMember, rerror, rlog>>
    /\ UNCHANGED <<backupVars, hardwareVars, payloadVars>>

(***************************************************************************)
(* HomeAssistant._hardware_events                                          *)
(***************************************************************************)
NoVersion == <<>>
MinVersion == <<2021, 9, 0>>
Versions == {NoVersion, <<2021, 8, 6>>, <<2021, 9, 0>>, <<2021, 12, 1>>, <<2022, 2, 0>>}

\* AwesomeVersion's `<`: section by section, numerically.
VersionLess(a, b) ==
    \E i \in 1..3 : a[i] < b[i] /\ \A j \in 1..(i - 1) : a[j] = b[j]

\* `not self.version or self.version < "2021.9.0"`
VersionTooOld(v) == v = NoVersion \/ VersionLess(v, MinVersion)

Components == {"usb", "zha"}
\* What async_send_command({"type": "get_config"}) can give: nothing (None),
\* a configuration with or without a component list, or HomeAssistantWSError.
ConfigReplies ==
    {[kind |-> "none", components |-> {}, error |-> None]}
    \cup {[kind |-> "config", components |-> c, error |-> None] : c \in SUBSET Components}
    \cup {[kind |-> "raise", components |-> {}, error |-> e] : e \in HomeAssistantWSError}
NoReply == [kind |-> "pending", components |-> {}, error |-> None]

\* `not configuration or "usb" not in configuration.get("components", [])`
RescanSuppressed(reply) == reply.kind = "none" \/ "usb" \notin reply.components

HardwareInit ==
    /\ hpc = "idle"
    /\ version \in Versions
    /\ hversion = NoVersion
    /\ hmatch = FALSE
    /\ hreply = NoReply
    /\ hqueries = 0
    /\ hscans = 0
    /\ hresult = Pending
    /\ hevents = 0

\* The version setter.
SetVersion ==
    /\ hpc \in {"idle", "done"}
    /\ \E v \in Versions \ {NoVersion} : v # version /\ version' = v
    /\ UNCHANGED <<hpc, hversion, hmatch, hreply, hqueries, hscans, hresult, hevents>>
    /\ UNCHANGED <<backupVars, restoreVars, payloadVars>>

\* A HARDWARE_NEW_DEVICE event: the handler checks the device and the
\* version, and either returns or sends the get_config query.
HardwareEvent ==
    /\ hpc \in {"idle", "done"}
    /\ hevents < MaxEvents
    /\ hevents' = hevents + 1
    /\ hreply' = NoReply
    /\ hscans' = 0
    /\ hversion' = version
    /\ \E match \in BOOLEAN :
        /\ hmatch' = match
        /\ IF ~match \/ VersionTooOld(version)
           THEN /\ hpc' = "done"
                /\ hqueries' = 0
                /\ hresult' = Return
           ELSE /\ hpc' = "await_config"
                /\ hqueries' = 1
                /\ hresult' = Pending
    /\ UNCHANGED version
    /\ UNCHANGED <<backupVars, restoreVars, payloadVars>>

\* The get_config query ends: the exception of a failed query leaves the
\* handler, an unsuitable answer ends it, and otherwise usb/scan is sent.
GetConfigReply ==
    /\ hpc = "await_config"
    /\ \E reply \in ConfigReplies :
        /\ hreply' = reply
        /\ IF reply.kind = "raise"
           THEN hresult' = Raise(reply.error) /\ hscans' = hscans
           ELSE IF RescanSuppressed(reply)
                THEN hresult' = Return /\ hscans' = hscans
                ELSE hresult' = Return /\ hscans' = hscans + 1
    /\ hpc' = "done"
    /\ UNCHANGED <<version, hversion, hmatch, hqueries, hevents>>
    /\ UNCHANGED <<backupVars, restoreVars, payloadVars>>

(***************************************************************************)
(* dbus/payloads/generate.py: text and address encodings                   *)
(***************************************************************************)
Digits == <<"0", "1", "2", "3", "4", "5", "6", "7", "8", "9", "a", "b", "c", "d", "e", "f">>

\* str(n) of a non-negative integer
RECURSIVE IntToStr(_)
IntToStr(n) == IF n < 10 THEN <<Digits[n + 1]>> ELSE IntToStr(n \div 10) \o <<Digits[(n % 10) + 1]>>

\* format(n, "x")
RECURSIVE IntToHex(_)
IntToHex(n) == IF n < 16 THEN <<Digits[n + 1]>> ELSE IntToHex(n \div 16) \o <<Digits[(n % 16) + 1]>>

\* sep.join(parts)
RECURSIVE Join(_, _)
Join(parts, sep) ==
    IF parts = <<>> THEN <<>>
    ELSE IF Len(parts) = 1 THEN parts[1]
    ELSE parts[1] \o sep \o Join(Tail(parts), sep)

\* str(IPv4Address): the dotted-decimal text of the four octets
Ipv4Text(ip) == Join([i \in 1..4 |-> IntToStr(ip[i])], <<".">>)

\* socket.htonl(int(ip_address)) on a little-endian host: int() reads the
\* octets most significant first, htonl() reverses the four bytes.
Ipv4ToInt(ip) == ip[4] * 16777216 + ip[3] * 65536 + ip[2] * 256 + ip[1]

\* IPv6Address.packed: the eight hextets as sixteen bytes
Ipv6Packed(ip) == [i \in 1..16 |-> IF i % 2 = 1 THEN ip[(i + 1) \div 2] \div 256
                                   ELSE ip[i \div 2] % 256]

\* Length of the run of zero hextets that starts at index i
RECURSIVE ZeroRun(_, _)
ZeroRun(ip, i) == IF i > Len(ip) \/ ip[i] # 0 THEN 0 ELSE 1 + ZeroRun(ip, i + 1)

\* str(IPv6Address): the hextets in hexadecimal, the leftmost longest run of
\* two or more zero hextets written "::" (ipaddress._compress_hextets).
Ipv6Text(ip) ==
    LET best == CHOOSE i \in 1..8 :
                    /\ \A j \in 1..8 : ZeroRun(ip, j) <= ZeroRun(ip, i)
                    /\ \A j \in 1..(i - 1) : ZeroRun(ip, j) < ZeroRun(ip, i)
        len == ZeroRun(ip, best)
        hex(a, b) == Join([k \in 1..(b - a + 1) |-> IntToHex(ip[a + k - 1])], <<":">>)
    IN  IF len > 1
        THEN hex(1, best - 1) \o <<":", ":">> \o hex(best + len, 8)
        ELSE hex(1, 8)

\* IPv6Interface.with_prefixlen
WithPrefixlen(address) == Ipv6Text(address.ip) \o <<"/">> \o IntToStr(address.prefix)

Fe80Text == <<"f", "e", "8", "0", ":", ":">>
\* `address.with_prefixlen.startswith("fe80::")`
SkippedAsLinkLocal(address) == StartsWith(WithPrefixlen(address), Fe80Text)

\* str.encode("UTF-8") of a sequence of code points below U+0800
Utf8Char(cp) == IF cp < 128 THEN <<cp>> ELSE <<192 + (cp \div 64), 128 + (cp % 64)>>
Utf8Encode(str) == Concat([i \in 1..Len(str) |-> Utf8Char(str[i])])

\* The code point of a hexadecimal digit, as bytes.hex() writes it
HexDigitCode(d) == IF d < 10 THEN 48 + d ELSE 87 + d

\* ", ".join([f"0x{x}" for x in ssid.encode().hex(",").split(",")]):
\* "".split(",") is [""], so an empty SSID becomes "0x".
HexSsid(ssid) ==
    LET bytes == Utf8Encode(ssid)
    IN  IF bytes = <<>> THEN <<48, 120>>
        ELSE Join([i \in 1..Len(bytes) |->
                     <<48, 120, HexDigitCode(bytes[i] \div 16), HexDigitCode(bytes[i] % 16)>>],
                  <<44, 32>>)

(***************************************************************************)
(* dbus/payloads/generate.py: the Interface objects handed in              *)
(***************************************************************************)
Supervisor == <<"S", "u", "p", "e", "r", "v", "i", "s", "o", "r">>
NoName == <<>>                      \* None or "": both are falsy
CustomName == <<"L", "A", "N">>
NoUuid == "no-uuid"
FreshUuids == {"uuid4-a", "uuid4-b"}
StoredUuid == "stored-uuid"

Eth0 == <<"e", "t", "h", "0">>
Wlan0 == <<"w", "l", "a", "n", "0">>

AddrGlobal    == [ip |-> <<8193, 3512, 0, 0, 0, 0, 0, 1>>, prefix |-> 64]   \* 2001:db8::1/64
AddrLinkLocal == [ip |-> <<65152, 0, 0, 0, 0, 0, 0, 1>>, prefix |-> 64]     \* fe80::1/64
AddrLinkSub   == [ip |-> <<65152, 0, 0, 1, 0, 0, 0, 2>>, prefix |-> 64]     \* fe80:0:0:1::2/64
Ipv6Pool == {AddrGlobal, AddrLinkLocal, AddrLinkSub}
Ipv6Gateway == <<8193, 3512, 0, 0, 0, 0, 0, 254>>                            \* 2001:db8::fe
Ipv6Dns == <<8193, 18528, 18528, 0, 0, 0, 0, 34952>>                         \* 2001:4860:4860::8888

Ipv4Addr == [ip |-> <<192, 168, 1, 10>>, prefix |-> 24]
Ipv4Gateway == <<192, 168, 1, 1>>
Ipv4Dns == <<1, 1, 1, 1>>
NoAddress == <<0, 0, 0, 0>>

Ipv4Blocks ==
    {[method |-> m, address |-> <<>>, gateway |-> NoAddress, nameservers |-> <<>>] :
        m \in {"auto", "disabled"}}
    \cup {[method |-> "static", address |-> <<Ipv4Addr>>, gateway |-> Ipv4Gateway,
           nameservers |-> <<Ipv4Dns>>]}
Ipv6Blocks ==
    {[method |-> m, address |-> <<>>, gateway |-> NoAddress, nameservers |-> <<>>] :
        m \in {"auto", "disabled"}}
    \cup {[method |-> "static", address |-> a, gateway |-> Ipv6Gateway,
           nameservers |-> <<Ipv6Dns>>] : a \in SeqsUpTo(Ipv6Pool, MaxAddr) \ {<<>>}}

NoVlan == [present |-> FALSE, id |-> 0, interface |-> <<>>]
NoWifi == [present |-> FALSE, ssid |-> <<>>, auth |-> "open", psk |-> <<>>]
Ssids == {<<>>, <<72, 65>>, <<233>>}          \* "", "HA", "e" with acute accent
Psk == <<"k", "e", "y">>
WifiBlocks ==
    {[present |-> TRUE, ssid |-> s, auth |-> a, psk |-> IF a = "open" THEN <<>> ELSE Psk] :
        s \in Ssids, a \in {"open", "wep", "wpa-psk"}}

Interfaces ==
    {[name |-> Eth0, type |-> "ethernet", ipv4 |-> b4, ipv6 |-> b6, vlan |-> NoVlan, wifi |-> NoWifi] :
        b4 \in Ipv4Blocks, b6 \in Ipv6Blocks}
    \cup {[name |-> Eth0, type |-> "vlan", ipv4 |-> b4, ipv6 |-> b6,
           vlan |-> [present |-> TRUE, id |-> 10, interface |-> Eth0], wifi |-> NoWifi] :
        b4 \in Ipv4Blocks, b6 \in Ipv6Blocks}
    \cup {[name |-> Wlan0, type |-> "wireless", ipv4 |-> b4, ipv6 |-> b6, vlan |-> NoVlan, wifi |-> w] :
        b4 \in {b \in Ipv4Blocks : b.method = "auto"},
        b6 \in {b \in Ipv6Blocks : b.method = "auto"},
        w \in WifiBlocks}
(***************************************************************************)
(* dbus/payloads/generate.py: get_connection_from_interface                *)
(***************************************************************************)
Variant(sig, val) == [sig |-> sig, val |-> val]

EmptyDict == [k \in {} |-> None]
Put(dict, key, value) ==
    [k \in (DOMAIN dict) \cup {key} |-> IF k = key THEN value ELSE dict[k]]

\* "Generate/Update ID/name" of get_connection_from_interface
ConnectionName(interface, name) ==
    LET base == IF name = NoName \/ ~StartsWith(name, Supervisor)
                THEN Supervisor \o <<" ">> \o interface.name
                ELSE name
    IN  IF interface.type = "vlan"
        THEN base \o <<".">> \o IntToStr(interface.vlan.id)
        ELSE base

ConnectionType(interface) ==
    IF interface.type = "ethernet" THEN "802-3-ethernet"
    ELSE IF interface.type = "wireless" THEN "802-11-wireless"
    ELSE interface.type

ConnectionSection(interface, name, uuid) ==
    [k \in {"id", "interface-name", "type", "uuid", "llmnr", "mdns"} |->
        CASE k = "id" -> Variant("s", ConnectionName(interface, name))
          [] k = "interface-name" -> Variant("s", interface.name)
          [] k = "type" -> Variant("s", ConnectionType(interface))
          [] k = "uuid" -> Variant("s", uuid)
          [] k = "llmnr" -> Variant("i", 2)
          [] k = "mdns" -> Variant("i", 2)]

AddressData4(block) ==
    [i \in 1..Len(block.address) |->
        [address |-> Variant("s", Ipv4Text(block.address[i].ip)),
         prefix |-> Variant("u", block.address[i].prefix)]]

\* The ipv4 dictionary as the ipv4 block of the interface fills it.
Ipv4Section(interface) ==
    IF interface.ipv4.method = "auto" THEN Put(EmptyDict, "method", Variant("s", "auto"))
    ELSE IF interface.ipv4.method = "disabled" THEN Put(EmptyDict, "method", Variant("s", "disabled"))
    ELSE Put(Put(Put(Put(EmptyDict,
            "method", Variant("s", "manual")),
            "dns", Variant("au", [i \in 1..Len(interface.ipv4.nameservers) |->
                                     Ipv4ToInt(interface.ipv4.nameservers[i])])),
            "address-data", Variant("aa{sv}", AddressData4(interface.ipv4))),
            "gateway", Variant("s", Ipv4Text(interface.ipv4.gateway)))

\* The loop over interface.ipv6.address: the addresses whose text starts
\* with "fe80::" are skipped, the others are kept in order.
RECURSIVE AddressData6(_)
AddressData6(addresses) ==
    IF addresses = <<>> THEN <<>>
    ELSE IF SkippedAsLinkLocal(Head(addresses)) THEN AddressData6(Tail(addresses))
    ELSE <<[address |-> Variant("s", Ipv6Text(Head(addresses).ip)),
            prefix |-> Variant("u", Head(addresses).prefix)]>>
         \o AddressData6(Tail(addresses))

\* The ipv6 dictionary: the manual branch stores method and dns in it.
Ipv6Section(interface) ==
    IF interface.ipv6.method = "auto" THEN Put(EmptyDict, "method", Variant("s", "auto"))
    ELSE IF interface.ipv6.method = "disabled" THEN Put(EmptyDict, "method", Variant("s", "disabled"))
    ELSE Put(Put(EmptyDict,
            "method", Variant("s", "manual")),
            "dns", Variant("aay", [i \in 1..Len(interface.ipv6.nameservers) |->
                                      Ipv6Packed(interface.ipv6.nameservers[i])]))

\* The manual ipv6 branch stores its address-data and gateway in the ipv4
\* dictionary, which conn["ipv4"] already refers to.
Ipv4SectionAfterIpv6(interface) ==
    IF interface.ipv6.method \in {"auto", "disabled"} THEN Ipv4Section(interface)
    ELSE Put(Put(Ipv4Section(interface),
            "address-data", Variant("(a{sv})", AddressData6(interface.ipv6.address))),
            "gateway", Variant("s", Ipv6Text(interface.ipv6.gateway)))

WirelessSection(interface) ==
    LET wireless == Put(Put(Put(Put(EmptyDict,
            "assigned-mac-address", Variant("s", "preserve")),
            "ssid", Variant("ay", Utf8Encode(interface.wifi.ssid))),
            "mode", Variant("s", "infrastructure")),
            "powersave", Variant("i", 1))
    IN  IF interface.wifi.auth # "open"
        THEN Put(wireless, "security", Variant("s", "802-11-wireless-security"))
        ELSE wireless

WirelessSecuritySection(interface) ==
    LET alg == IF interface.wifi.auth = "wep"
               THEN Put(Put(EmptyDict, "auth-alg", Variant("s", "none")),
                        "key-mgmt", Variant("s", "open"))
               ELSE IF interface.wifi.auth = "wpa-psk"
               THEN Put(Put(EmptyDict, "auth-alg", Variant("s", "open")),
                        "key-mgmt", Variant("s", "wpa-psk"))
               ELSE EmptyDict
    IN  IF interface.wifi.psk # <<>> THEN Put(alg, "psk", Variant("s", interface.wifi.psk))
        ELSE alg

MediumSections(interface) ==
    IF interface.type = "ethernet"
    THEN Put(EmptyDict, "802-3-ethernet",
             Put(EmptyDict, "assigned-mac-address", Variant("s", "preserve")))
    ELSE IF interface.type = "vlan"
    THEN Put(EmptyDict, "vlan",
             Put(Put(EmptyDict, "id", Variant("u", interface.vlan.id)),
                 "parent", Variant("s", interface.vlan.interface)))
    ELSE IF interface.type = "wireless"
    THEN LET w == Put(EmptyDict, "802-11-wireless", WirelessSection(interface))
         IN  IF interface.wifi.auth # "open"
             THEN Put(w, "802-11-wireless-security", WirelessSecuritySection(interface))
             ELSE w
    ELSE EmptyDict

\* get_connection_from_interface(interface, name, uuid); fresh is what
\* uuid4() gives when no uuid is passed.
GetConnectionFromInterface(interface, name, uuid, fresh) ==
    LET medium == MediumSections(interface)
        base == Put(Put(Put(EmptyDict,
            "connection", ConnectionSection(interface, name, IF uuid = NoUuid THEN fresh ELSE uuid)),
            "ipv4", Ipv4SectionAfterIpv6(interface)),
            "ipv6", Ipv6Section(interface))
    IN  [k \in (DOMAIN base) \cup (DOMAIN medium) |->
            IF k \in DOMAIN medium THEN medium[k] ELSE base[k]]

(***************************************************************************)
(* dbus/payloads/generate.py: interface_update_payload                     *)
(***************************************************************************)
\* "Generate/Update ID/name" of interface_update_payload
PayloadName(interface, name) ==
    LET base == IF name = NoName \/ ~StartsWith(name, Supervisor)
                THEN Supervisor \o <<" ">> \o interface.name
                ELSE name
    IN  IF interface.type = "vlan"
        THEN base \o <<".">> \o IntToStr(interface.vlan.id)
        ELSE base

\* "Fix SSID": the hexadecimal text is stored in the caller's object.
FixSsid(interface) ==
    IF interface.wifi.present
    THEN [interface EXCEPT !.wifi.ssid = HexSsid(interface.wifi.ssid)]
    ELSE interface

\* template.render(interface=interface, name=name, uuid=uuid): the text is a
\* function of the three values the template is given, the interface being
\* the object as "Fix SSID" left it.
RenderTemplate(interface, name, uuid) ==
    [interface |-> interface, name |-> name, uuid |-> uuid]

PayloadInit ==
    /\ iface \in Interfaces
    /\ ssid0 = iface.wifi.ssid
    /\ conn = EmptyDict
    /\ argName = NoName
    /\ adopted = FALSE
    /\ builds = 0
    /\ rendered = <<>>
    /\ renderArgs = <<>>

\* A caller builds the profile of the interface.
BuildProfile ==
    /\ builds < MaxBuilds
    /\ \E name \in {NoName, CustomName}, uuid \in {NoUuid, StoredUuid}, fresh \in FreshUuids :
        /\ conn' = GetConnectionFromInterface(iface, name, uuid, fresh)
        /\ argName' = name
    /\ adopted' = FALSE
    /\ builds' = builds + 1
    /\ UNCHANGED <<iface, ssid0, rendered, renderArgs>>
    /\ UNCHANGED <<backupVars, restoreVars, hardwareVars>>

\* A caller builds the profile again, handing back the id and the uuid of
\* the profile the previous call produced.
RebuildProfile ==
    /\ builds > 0
    /\ builds < MaxBuilds
    /\ conn' = GetConnectionFromInterface(iface, conn["connection"]["id"].val,
                                          conn["connection"]["uuid"].val, StoredUuid)
    /\ argName' = conn["connection"]["id"].val
    /\ adopted' = TRUE
    /\ builds' = builds + 1
    /\ UNCHANGED <<iface, ssid0, rendered, renderArgs>>
    /\ UNCHANGED <<backupVars, restoreVars, hardwareVars>>

\* A caller renders the key-file text of the interface.
RenderProfileText ==
    /\ Len(rendered) < MaxRenders
    /\ \E name \in {NoName}, uuid \in {NoUuid, StoredUuid}, fresh \in FreshUuids :
        LET u == IF uuid = NoUuid THEN fresh ELSE uuid
        IN  /\ iface' = FixSsid(iface)
            /\ rendered' = Append(rendered, RenderTemplate(FixSsid(iface), PayloadName(iface, name), u))
            /\ renderArgs' = Append(renderArgs, <<name, u>>)
    /\ UNCHANGED <<ssid0, conn, argName, adopted, builds>>
    /\ UNCHANGED <<backupVars, restoreVars, hardwareVars>>

(***************************************************************************)
(* Specifications                                                          *)
(***************************************************************************)
\* A component at rest: the state the other specifications hold it in.
BackupIdle == BackupInit
RestoreIdle ==
    /\ RestoreInit
    /\ archive = <<>> /\ failAt = 0 /\ extractFilter = "fully_trusted"
HardwareIdle == HardwareInit /\ version = NoVersion
PayloadIdle ==
    /\ PayloadInit
    /\ iface = CHOOSE i \in Interfaces :
                  i.type = "ethernet" /\ i.ipv4.method = "auto" /\ i.ipv6.method = "auto"

InitBackup == BackupInit /\ RestoreIdle /\ HardwareIdle /\ PayloadIdle
NextBackup == BackupCall \/ BackupStartReply \/ BackupWriteTarfile \/ BackupEndReply
SpecBackup == InitBackup /\ [][NextBackup]_vars

InitRestore == RestoreInit /\ BackupIdle /\ HardwareIdle /\ PayloadIdle
NextRestore == RestoreCall \/ ExtractMember \/ ExtractRefused \/ ExtractFail \/ ExtractDone
SpecRestore == InitRestore /\ [][NextRestore]_vars

InitHardware == HardwareInit /\ BackupIdle /\ RestoreIdle /\ PayloadIdle
NextHardware == SetVersion \/ HardwareEvent \/ GetConfigReply
SpecHardware == InitHardware /\ [][NextHardware]_vars

InitPayload == PayloadInit /\ BackupIdle /\ RestoreIdle /\ HardwareIdle
NextPayload == BuildProfile \/ RebuildProfile \/ RenderProfileText
SpecPayload == InitPayload /\ [][NextPayload]_vars

(***************************************************************************)
(* Properties of backup()                                                  *)
(***************************************************************************)
Count(seq, x) == Cardinality({i \in 1..Len(seq) : seq[i] = x})
FirstIndex(seq, x) == CHOOSE i \in 1..Len(seq) : seq[i] = x /\ \A j \in 1..(i-1) : seq[j] # x
IndexOf(seq, x) == IF Count(seq, x) = 0 THEN 0 ELSE FirstIndex(seq, x)
Before(seq, x, y) == IndexOf(seq, x) > 0 /\ IndexOf(seq, x) < IndexOf(seq, y)

\* C1: in every backup() call, population never begins without an earlier
\* BACKUP_START attempt, and the call never ends (returning or raising)
\* without a BACKUP_END attempt made after population completed or failed.
C1_StartBeforePopulateEndBeforeReturn ==
    /\ Count(btrace, "populate") > 0 => Before(btrace, "BACKUP_START", "populate")
    /\ bpopOut # None => Count(btrace, "populate") > 0
    /\ Count(btrace, "BACKUP_END") > 0 => Before(btrace, "populate_end", "BACKUP_END")
    /\ (bpc = "done" \/ bresult # Pending) =>
          /\ Before(btrace, "populate", "populate_end")
          /\ Before(btrace, "populate_end", "BACKUP_END")

\* C1 happens: population failed, both commands failed, and the call is over
\* with the four steps in order.
C1_Witness ==
    /\ bpc = "done"
    /\ bstartOut = "ChannelTimeout"
    /\ bpopOut = "OSError"
    /\ bendOut = "ChannelUnavailable"
    /\ btrace = <<"BACKUP_START", "populate", "populate_end", "BACKUP_END">>

\* C2: a failure of BACKUP_START, of either kind, never keeps population from
\* running; and a call whose every channel request failed while population
\* succeeded returns without error after exactly one BACKUP_START attempt,
\* one population and one BACKUP_END attempt.
C2_ChannelFailureIsNotFatal ==
    /\ bstartOut \in HomeAssistantWSError => Count(btrace, "populate") = 1
    /\ (/\ bpc = "done"
        /\ bstartOut \in HomeAssistantWSError
        /\ bendOut \in HomeAssistantWSError \cup {None}
        /\ bpopOut \in {"ok", None}) =>
          /\ bresult = Return
          /\ bpopOut = "ok"
          /\ Count(btrace, "BACKUP_START") = 1
          /\ Count(btrace, "populate") = 1
          /\ Count(btrace, "BACKUP_END") = 1

\* C2 happens: the channel was unavailable for both commands, the archive
\* was populated and the call returned.
C2_Witness ==
    /\ bpc = "done"
    /\ bstartOut = "ChannelUnavailable"
    /\ bendOut = "ChannelUnavailable"
    /\ bpopOut = "ok"
    /\ bresult = Return
    /\ bwarnings >= 2

\* C3: when population fails, BACKUP_END is still attempted and the caller
\* receives the population error; a failure of BACKUP_END is never what
\* backup() raises.
C3_PopulationErrorReachesCaller ==
    /\ (bpc = "done" /\ bpopOut \notin {"ok", None}) =>
          /\ Count(btrace, "BACKUP_END") = 1
          /\ bresult = Raise(bpopOut)
    /\ bresult.kind = "raise" => bresult.value \notin HomeAssistantWSError

\* C3 happens: population failed, BACKUP_END timed out, and the caller got
\* the population error.
C3_Witness ==
    /\ bpc = "done"
    /\ bpopOut = "ArchiveWriteFailed"
    /\ bendOut = "ChannelTimeout"
    /\ bresult = Raise("ArchiveWriteFailed")

(***************************************************************************)
(* Properties of restore()                                                 *)
(***************************************************************************)
\* A member the archive should not hold: absolute, or leaving the directory.
InvalidMember(member) == member.abs \/ ~InsideOrigin(JoinPath(OriginDir, member))
HasInvalidMember == \E i \in 1..Len(archive) : InvalidMember(archive[i])

\* The files below the destination directory
DestinationState(files) == {<<q, files[q]>> : q \in {x \in DOMAIN files : InsideOrigin(x)}}

\* C4: when the archive holds a member whose path is absolute or leaves the
\* destination directory, restore() ends with InvalidArchiveMember and
\* writes no file, neither outside nor inside the destination directory.
C4_InvalidMemberRejectedWithoutWrite ==
    (failAt = 0 /\ HasInvalidMember) =>
        /\ fs = fsBefore
        /\ rpc = "done" => rresult = Raise("InvalidArchiveMember")

\* C5: a restore() whose extraction failed with an archive or filesystem
\* error does not raise, and what its caller observes differs from what the
\* caller of a successful restore() observes.
C5_FailedRestoreIsReported ==
    (rpc = "done" /\ rerror # None) =>
        /\ rresult.kind # "raise"
        /\ rresult # Return

\* C6: a restore() that failed part-way leaves the destination directory in
\* the state it had when extraction began.
C6_FailedRestoreLeavesDestinationUntouched ==
    (rpc = "done" /\ rerror # None) => DestinationState(fs) = DestinationState(fsBefore)

(***************************************************************************)
(* Properties of _hardware_events()                                        *)
(***************************************************************************)
\* C7: for every device event, usb/scan is sent only if the device matches,
\* the version is known and at least 2021.9.0 and the get_config answer
\* lists "usb"; without a match or a suitable version no query is issued and
\* nothing is sent; a failed get_config query suppresses the rescan and the
\* handler ends without error; at most one query and one usb/scan per event.
C7_RescanOnlyWhenAllGuardsHold ==
    hpc = "done" =>
        /\ hscans > 0 =>
              /\ hmatch
              /\ hversion # NoVersion /\ ~VersionLess(hversion, MinVersion)
              /\ hreply.kind = "config" /\ "usb" \in hreply.components
        /\ (~hmatch \/ hversion = NoVersion \/ VersionLess(hversion, MinVersion)) =>
              hqueries = 0 /\ hscans = 0
        /\ hreply.kind \in {"none", "raise"} => hscans = 0 /\ hresult = Return
        /\ hqueries <= 1 /\ hscans <= 1

(***************************************************************************)
(* Properties of the payload generators                                    *)
(***************************************************************************)
\* Membership in fe80::/10: the first ten bits are 1111111010.
InFe80Slash10(ip) == ip[1] \div 64 = 1018

\* The {address, prefix} documents of the addresses outside fe80::/10
RECURSIVE NonLinkLocalData(_)
NonLinkLocalData(addresses) ==
    IF addresses = <<>> THEN <<>>
    ELSE IF InFe80Slash10(Head(addresses).ip) THEN NonLinkLocalData(Tail(addresses))
    ELSE <<[address |-> Variant("s", Ipv6Text(Head(addresses).ip)),
            prefix |-> Variant("u", Head(addresses).prefix)]>>
         \o NonLinkLocalData(Tail(addresses))

\* C8: for an interface whose IPv6 block is manual, the ipv6 section of the
\* profile carries an address-data array holding exactly the input addresses
\* outside fe80::/10, in input order, and the IPv6 gateway; the address-data
\* and gateway of the ipv4 section are those of the IPv4 block.
C8_ManualIpv6InOwnSection ==
    (builds > 0 /\ iface.ipv6.method \notin {"auto", "disabled"}) =>
        /\ "address-data" \in DOMAIN conn["ipv6"]
        /\ conn["ipv6"]["address-data"].val = NonLinkLocalData(iface.ipv6.address)
        /\ "gateway" \in DOMAIN conn["ipv6"]
        /\ conn["ipv6"]["gateway"].val = Ipv6Text(iface.ipv6.gateway)
        /\ conn["ipv4"] = Ipv4Section(iface)

\* C9: after any number of RenderProfileText calls on a wireless interface
\* the stored SSID is the one the interface had before the first call, and
\* calls with the same name and UUID render the same text.
C9_RenderKeepsStoredSsid ==
    (iface.wifi.present /\ Len(rendered) > 0) =>
        /\ iface.wifi.ssid = ssid0
        /\ \A i, j \in 1..Len(rendered) :
              renderArgs[i] = renderArgs[j] => rendered[i] = rendered[j]

\* C10: handing the connection id one BuildProfile call produced back as the
\* name of the next call on the same interface yields the same connection id.
C10_NameIsFixedPoint ==
    (builds > 0 /\ adopted) => conn["connection"]["id"].val = argName
====
